---------------------------- MODULE Spec2Model ----------------------------
(* Model of Practice14/main.py: the character catalog CLI.                 *)
(* One process reads lines, dispatches them over the command registry and  *)
(* mutates a DataStorage that rewrites characters.json on every add.       *)
EXTENDS Integers, Sequences, FiniteSets, TLC

(***************************************************************************)
(* Bounds of the model                                                     *)
(***************************************************************************)
\* the store never grows beyond this many records (guards of Add / Import)
MaxChars == 2

(***************************************************************************)
(* Text: Python str values are TLA+ strings; Chars gives the characters of *)
(* every string the inputs can contain, so that int() can be computed.     *)
(***************************************************************************)
Digits == <<"0", "1", "2", "3", "4", "5", "6", "7", "8", "9">>

Chars(s) ==
    CASE s = "0"  -> <<"0">>
      [] s = "1"  -> <<"1">>
      [] s = "2"  -> <<"2">>
      [] s = "3"  -> <<"3">>
      [] s = "5"  -> <<"5">>
      [] s = "7"  -> <<"7">>
      [] s = "9"  -> <<"9">>
      [] s = "12" -> <<"1", "2">>
      [] s = "-1" -> <<"-", "1">>
      [] s = "x"  -> <<"x">>
      [] s = ""   -> <<>>

IsDigit(c) == \E d \in 1..10 : Digits[d] = c

DigitVal(c) == (CHOOSE d \in 1..10 : Digits[d] = c) - 1

RECURSIVE DigitsValue(_)
DigitsValue(cs) ==
    IF cs = <<>> THEN 0
    ELSE 10 * DigitsValue(SubSeq(cs, 1, Len(cs) - 1)) + DigitVal(cs[Len(cs)])

\* the unsigned part of a numeral: what is left after an optional sign
Unsigned(cs) ==
    IF cs /= <<>> /\ cs[1] \in {"-", "+"} THEN Tail(cs) ELSE cs

\* int(s) succeeds: an optional sign followed by one or more digits
IntOk(s) ==
    LET u == Unsigned(Chars(s))
    IN  u /= <<>> /\ \A k \in 1..Len(u) : IsDigit(u[k])

\* int(s), for a string on which it succeeds
IntOf(s) ==
    LET cs == Chars(s)
    IN  IF cs[1] = "-" THEN 0 - DigitsValue(Unsigned(cs))
        ELSE DigitsValue(Unsigned(cs))

RECURSIVE NatDigits(_)
NatDigits(n) ==
    IF n < 10 THEN <<Digits[n + 1]>>
    ELSE NatDigits(n \div 10) \o <<Digits[(n % 10) + 1]>>

\* str(n) of an integer, as its characters (f-string and json formatting)
StrOf(n) == IF n < 0 THEN <<"-">> \o NatDigits(0 - n) ELSE NatDigits(n)

\* int() of a numeral given by its characters (json.load of a number)
IntOfChars(cs) ==
    IF cs[1] = "-" THEN 0 - DigitsValue(Tail(cs)) ELSE DigitsValue(cs)


(***************************************************************************)
(* Character and its dictionary form                                       *)
(***************************************************************************)
\* Character.__init__: the attributes set from the six parameters
Character(id, name, char_type, health, attack, image_url) ==
    [id |-> id, name |-> name, type |-> char_type,
     health |-> health, attack |-> attack, image_url |-> image_url]

\* the parameter names of Character.__init__, and those without a default
InitParams == {"id", "name", "char_type", "health", "attack", "image_url"}

RequiredParams == {"id", "name", "char_type", "health", "attack"}

\* the keys of the dictionary to_dict returns
DictKeys == {"id", "name", "type", "health", "attack", "image_url"}

to_dict(c) ==
    [k \in DictKeys |->
        CASE k = "id"        -> c.id
          [] k = "name"      -> c.name
          [] k = "type"      -> c.type
          [] k = "health"    -> c.health
          [] k = "attack"    -> c.attack
          [] k = "image_url" -> c.image_url]

\* Character(**kw) binds: no unexpected keyword, no required one missing
KwargsBind(kw) ==
    /\ DOMAIN kw \subseteq InitParams
    /\ RequiredParams \subseteq DOMAIN kw

\* Character(**kw), for a dictionary that binds
CharacterFromKwargs(kw) ==
    Character(kw["id"], kw["name"], kw["char_type"], kw["health"], kw["attack"],
              IF "image_url" \in DOMAIN kw THEN kw["image_url"] ELSE "")

(***************************************************************************)
(* JSON text of the backing file: an array of objects; a number is kept as *)
(* its digits, a string as its text                                        *)
(***************************************************************************)
\* the keys whose values are Python ints (id, health, attack)
IntKeys == {"id", "health", "attack"}

JsonDumpObject(d) ==
    [k \in DOMAIN d |->
        IF k \in IntKeys THEN [num |-> TRUE, text |-> StrOf(d[k])]
        ELSE [num |-> FALSE, text |-> <<d[k]>>]]

JsonLoadObject(o) ==
    [k \in DOMAIN o |->
        IF o[k].num THEN IntOfChars(o[k].text) ELSE o[k].text[1]]

\* no file on disk
NoFile == [exists |-> FALSE, valid |-> TRUE, data |-> <<>>]

\* a file cut short by a failed write: it exists and is not valid JSON
BrokenFile == [exists |-> TRUE, valid |-> FALSE, data |-> <<>>]

\* json.dump([char.to_dict() for char in characters], f): the file save() writes
Written(chars) ==
    [exists |-> TRUE, valid |-> TRUE,
     data |-> [k \in 1..Len(chars) |-> JsonDumpObject(to_dict(chars[k]))]]

(***************************************************************************)
(* DataStorage                                                             *)
(***************************************************************************)
\* how one call of save() can end: written; open() fails and the file is
\* untouched; the write fails after open() truncated the file
SaveOutcomes == {"ok", "open_fails", "write_fails"}

\* DataStorage.load: [ok, chars]; ok = FALSE when json.load or Character(**char) raises
load(f) ==
    IF ~f.exists THEN [ok |-> TRUE, chars |-> <<>>]
    ELSE IF ~f.valid THEN [ok |-> FALSE, chars |-> <<>>]
    ELSE LET data == [k \in 1..Len(f.data) |-> JsonLoadObject(f.data[k])]
         IN  IF \A k \in 1..Len(data) : KwargsBind(data[k])
             THEN [ok |-> TRUE,
                   chars |-> [k \in 1..Len(data) |-> CharacterFromKwargs(data[k])]]
             ELSE [ok |-> FALSE, chars |-> <<>>]

\* DataStorage.save: the file afterwards and the exception raised ("" for none)
save(chars, f, outcome) ==
    CASE outcome = "ok"          -> [file |-> Written(chars), exc |-> ""]
      [] outcome = "open_fails"  -> [file |-> f, exc |-> "OSError"]
      [] outcome = "write_fails" -> [file |-> BrokenFile, exc |-> "OSError"]

\* a variant of add_character that saves before it appends
add_character_saves_first(chars, f, character, outcome) ==
    LET saved == save(chars, f, outcome)
    IN  [chars |-> Append(chars, character), file |-> saved.file, exc |-> saved.exc]

\* a variant of add_character that takes the record back when save() fails
add_character_rollback(chars, f, character, outcome) ==
    LET appended == Append(chars, character)
        saved    == save(appended, f, outcome)
    IN  [chars |-> IF saved.exc = "" THEN appended ELSE chars,
         file |-> saved.file, exc |-> saved.exc]

\* a variant of add_character that inserts the record at the front
add_character_prepends(chars, f, character, outcome) ==
    LET inserted == <<character>> \o chars
        saved    == save(inserted, f, outcome)
    IN  [chars |-> inserted, file |-> saved.file, exc |-> saved.exc]

\* DataStorage.add_character: append, then save
add_character(chars, f, character, outcome) ==
    LET appended == Append(chars, character)
        saved    == save(appended, f, outcome)
    IN  [chars |-> appended, file |-> saved.file, exc |-> saved.exc]

\* the for loop of DataStorage.get_by_id from position k: the first record
\* with the id, 0 when the loop runs out
RECURSIVE ScanById(_, _, _)
ScanById(chars, char_id, k) ==
    IF k > Len(chars) THEN 0
    ELSE IF chars[k].id = char_id THEN k
    ELSE ScanById(chars, char_id, k + 1)

\* a variant of get_by_id that returns the last record with the id
get_by_id_last(chars, char_id) ==
    LET S == {k \in 1..Len(chars) : chars[k].id = char_id}
    IN  IF S = {} THEN 0 ELSE CHOOSE k \in S : \A m \in S : m <= k

\* DataStorage.get_by_id: the position of the record returned, 0 for None
get_by_id(chars, char_id) == ScanById(chars, char_id, 1)

(***************************************************************************)
(* ArgParser                                                               *)
(***************************************************************************)
\* an input line is a sequence of chunks: a token, or a run of whitespace WS
WS == " "

\* the command word of a line without tokens (Python None)
None == "None"

\* input_string.strip().split(): the tokens, in order
Split(input_string) == SelectSeq(input_string, LAMBDA chunk : chunk /= WS)

\* ArgParser.parse_args: (command, args)
parse_args(input_string) ==
    LET parts == Split(input_string)
    IN  IF parts = <<>> THEN [command |-> None, args |-> <<>>]
        ELSE [command |-> parts[1], args |-> Tail(parts)]

(***************************************************************************)
(* Renderer: a rendered line is the sequence of its pieces; the Ukrainian   *)
(* texts of the source are given in English                                *)
(***************************************************************************)
\* ConsoleRenderer.transform
transform(c) ==
    StrOf(c.id) \o <<". ", c.name, " (", c.type, ") - HP: ">> \o StrOf(c.health)
        \o <<", ATK: ">> \o StrOf(c.attack)

MsgEmptyList == <<"The character list is empty">>

MsgListHeader == <<"=== Character list ===">>

MsgAddHeader == <<"=== Create a character ===">>

MsgCreated(name) == <<"Character '", name, "' created!">>

MsgShowUsage == <<"Error: give the character ID">>

MsgNotFound == <<"Character not found">>

MsgHelp == <<"=== Available commands ===">>

MsgImportHeader == <<"=== Import characters from the API ===">>

MsgImportLoading == <<"Loading the character list...">>

MsgImportFailed == <<"Could not load the characters">>

MsgFound(n) == <<"Found ">> \o StrOf(n) \o <<" characters">>

MsgLoadingCount(n) == <<"Loading ">> \o StrOf(n) \o <<" characters...">>

MsgProgress(k, n, name) ==
    <<"[">> \o StrOf(k) \o <<"/">> \o StrOf(n) \o <<"] Loading ", name, "...">>

MsgImported(n) == <<"Imported ">> \o StrOf(n) \o <<" characters!">>

MsgUnknown(command) == <<"Unknown command: ", command>>

MsgBye == <<"Goodbye!">>

MsgError(exc) == <<"Error: ", exc>>

\* how a command ends: the store, what it rendered, the exception it raised
\* ("" for none) and the number of save() calls it made
Result(chars, f, out, exc, saves) ==
    [chars |-> chars, file |-> f, out |-> out, exc |-> exc, saves |-> saves]

(***************************************************************************)
(* Commands                                                                *)
(***************************************************************************)
\* ListCommand.exec_command
ListCommand_exec(chars, f) ==
    IF chars = <<>> THEN Result(chars, f, <<MsgEmptyList>>, "", 0)
    ELSE Result(chars, f,
                <<MsgListHeader>> \o [k \in 1..Len(chars) |-> transform(chars[k])],
                "", 0)

\* a variant of char_id that counts from zero
char_id_zero_based(chars) == Len(chars)

\* line 110: the id of a new record is the number of records plus one
char_id(chars) == Len(chars) + 1

\* a variant of AddCommand_exec that stores the record with attack 0 before
\* it parses the attack answer
AddCommand_exec_partial(chars, f, inp, outcome) ==
    IF inp.intr \in {1, 2, 3} THEN Result(chars, f, <<MsgAddHeader>>, "KeyboardInterrupt", 0)
    ELSE IF ~IntOk(inp.health) THEN Result(chars, f, <<MsgAddHeader>>, "ValueError", 0)
    ELSE IF inp.intr = 4 THEN Result(chars, f, <<MsgAddHeader>>, "KeyboardInterrupt", 0)
    ELSE LET new_char == Character(char_id(chars), inp.name, inp.char_type,
                                   IntOf(inp.health), 0, inp.image_url)
             added    == add_character(chars, f, new_char, outcome)
         IN  IF added.exc /= ""
             THEN Result(added.chars, added.file, <<MsgAddHeader>>, added.exc, 1)
             ELSE IF ~IntOk(inp.attack)
             THEN Result(added.chars, added.file, <<MsgAddHeader>>, "ValueError", 1)
             ELSE Result(added.chars, added.file,
                         <<MsgAddHeader, MsgCreated(inp.name)>>, "", 1)

\* AddCommand.exec_command. inp holds the five answers and intr, the prompt at
\* which an interrupt arrives (0 for none)
AddCommand_exec(chars, f, inp, outcome) ==
    IF inp.intr \in {1, 2, 3} THEN Result(chars, f, <<MsgAddHeader>>, "KeyboardInterrupt", 0)
    ELSE IF ~IntOk(inp.health) THEN Result(chars, f, <<MsgAddHeader>>, "ValueError", 0)
    ELSE IF inp.intr = 4 THEN Result(chars, f, <<MsgAddHeader>>, "KeyboardInterrupt", 0)
    ELSE IF ~IntOk(inp.attack) THEN Result(chars, f, <<MsgAddHeader>>, "ValueError", 0)
    ELSE IF inp.intr = 5 THEN Result(chars, f, <<MsgAddHeader>>, "KeyboardInterrupt", 0)
    ELSE LET new_char == Character(char_id(chars), inp.name, inp.char_type,
                                   IntOf(inp.health), IntOf(inp.attack), inp.image_url)
             added    == add_character(chars, f, new_char, outcome)
         IN  IF added.exc /= ""
             THEN Result(added.chars, added.file, <<MsgAddHeader>>, added.exc, 1)
             ELSE Result(added.chars, added.file,
                         <<MsgAddHeader, MsgCreated(inp.name)>>, "", 1)

\* the lines ShowCommand renders for a record
ShowLines(c) ==
    << <<"=== ", c.name, " ===">>,
       <<"ID: ">> \o StrOf(c.id),
       <<"Type: ", c.type>>,
       <<"Health: ">> \o StrOf(c.health),
       <<"Attack: ">> \o StrOf(c.attack) >>
    \o (IF c.image_url /= "" THEN << <<"Image: ", c.image_url>> >> ELSE <<>>)

\* ShowCommand.exec_command
ShowCommand_exec(args, chars, f) ==
    IF args = <<>> THEN Result(chars, f, <<MsgShowUsage>>, "", 0)
    ELSE IF ~IntOk(args[1]) THEN Result(chars, f, <<>>, "ValueError", 0)
    ELSE LET char == get_by_id(chars, IntOf(args[1]))
         IN  IF char /= 0 THEN Result(chars, f, ShowLines(chars[char]), "", 0)
             ELSE Result(chars, f, <<MsgNotFound>>, "", 0)

\* HelpCommand.exec_command
HelpCommand_exec(chars, f) == Result(chars, f, <<MsgHelp>>, "", 0)

(***************************************************************************)
(* ImportCommand and the API collaborator                                  *)
(***************************************************************************)
\* the names the API can list, in its order
AllNames == <<"Amber", "Lisa", "Diluc", "Jean", "Klee">>

\* GenshinAPIClient.get_all_character_names: the lists it can return when the
\* store holds n records (the store stays within MaxChars)
NameLists(n) == {SubSeq(AllNames, 1, m) : m \in 0..(MaxChars - n)}

\* GenshinAPIClient.get_character_details: a detail, None, or an exception
FetchOutcomes == {"detail", "none", "raises"}

\* GenshinCharacterParser.parse_to_character(details, id, Character)
parse_to_character(name, id) == Character(id, name, "Pyro", 100, 10, "u")

\* the count used when the answer to the count prompt cannot be used
DefaultCount == 5

\* an interrupt in place of an answer to a prompt
CtrlC == "^C"

Min(a, b) == IF a < b THEN a ELSE b

\* lines 177-181: int(input(...)), min(count, len(names)); any failure gives 5
ChooseCount(answer, n) ==
    IF answer = CtrlC THEN DefaultCount
    ELSE IF IntOk(answer) THEN Min(IntOf(answer), n)
    ELSE DefaultCount

\* a variant of Slice that takes n names without clamping, starting over at
\* the end of the list
SliceWrapping(names, n) ==
    IF n >= 0 THEN [k \in 1..n |-> names[((k - 1) % Len(names)) + 1]]
    ELSE SubSeq(names, 1, Len(names) + n)

\* names[:count] of Python: a negative count is taken from the end
Slice(names, n) ==
    IF n >= 0 THEN SubSeq(names, 1, Min(n, Len(names)))
    ELSE SubSeq(names, 1, Len(names) + n)

RECURSIVE MaxOf(_, _)
MaxOf(chars, default) ==
    IF chars = <<>> THEN default
    ELSE LET rest == MaxOf(Tail(chars), default)
         IN  IF rest > Head(chars).id THEN rest ELSE Head(chars).id

\* a variant of MaxId that takes the number of records for the maximum id
MaxIdCount(chars) == Len(chars)

\* max([c.id for c in storage.get_all()], default=0)
MaxId(chars) == IF chars = <<>> THEN 0 ELSE MaxOf(Tail(chars), Head(chars).id)

\* a variant of ImportId that starts at the maximum id itself
ImportIdOffByOne(base, k) == base + k

\* the id given to the record of the name at 0-based position k of the batch
ImportId(base, k) == base + k + 1

(***************************************************************************)
(* CLI                                                                     *)
(***************************************************************************)
ListCommand_selectors == <<"list", "ls">>

AddCommand_selectors == <<"add", "create">>

ShowCommand_selectors == <<"show", "view">>

HelpCommand_selectors == <<"help", "?">>

ImportCommand_selectors == <<"import", "fetch">>

\* CLI.__init__: self.commands, in registration order
CLI_commands ==
    << [kind |-> "List",   selectors |-> ListCommand_selectors],
       [kind |-> "Add",    selectors |-> AddCommand_selectors],
       [kind |-> "Show",   selectors |-> ShowCommand_selectors],
       [kind |-> "Help",   selectors |-> HelpCommand_selectors],
       [kind |-> "Import", selectors |-> ImportCommand_selectors] >>

\* x in list
InList(x, list) == \E k \in 1..Len(list) : list[k] = x

\* a variant of ScanCommands in which the last matching strategy wins
ScanCommandsLast(cmds, command, k) ==
    LET S == {m \in k..Len(cmds) : InList(command, cmds[m].selectors)}
    IN  IF S = {} THEN 0 ELSE CHOOSE m \in S : \A n \in S : n <= m

\* a variant of ScanCommands that falls back on the first strategy when no
\* selector holds the command
ScanCommandsDefault(cmds, command, k) ==
    LET S == {m \in k..Len(cmds) : InList(command, cmds[m].selectors)}
    IN  IF S = {} THEN 1 ELSE CHOOSE m \in S : \A n \in S : m <= n

\* the for loop of CLI.exec_command from position k: the first strategy whose
\* selectors hold the command, 0 when the loop runs out
RECURSIVE ScanCommands(_, _, _)
ScanCommands(cmds, command, k) ==
    IF k > Len(cmds) THEN 0
    ELSE IF InList(command, cmds[k].selectors) THEN k
    ELSE ScanCommands(cmds, command, k + 1)

\* a variant of Route that consults the registry before the exit words
RouteRegistryFirst(cmds, command) ==
    IF ScanCommands(cmds, command, 1) /= 0
    THEN [exit |-> FALSE, idx |-> ScanCommands(cmds, command, 1)]
    ELSE [exit |-> InList(command, <<"exit", "quit">>), idx |-> 0]

\* CLI.exec_command up to the call of a strategy: leave the loop, or the
\* position of the strategy to execute (0 for none)
Route(cmds, command) ==
    IF InList(command, <<"exit", "quit">>) THEN [exit |-> TRUE, idx |-> 0]
    ELSE [exit |-> FALSE, idx |-> ScanCommands(cmds, command, 1)]

\* a variant of run_next in which any exception ends the loop
run_next_breaks(ret, exc) ==
    IF exc = "" THEN (IF ret THEN "prompt" ELSE "exited") ELSE "exited"

\* a variant of run_next in which an interrupt is handled like any exception
run_next_swallows(ret, exc) ==
    IF exc = "" THEN (IF ret THEN "prompt" ELSE "exited") ELSE "prompt"

\* CLI.run: where the loop goes after exec_command returned ret or raised exc
run_next(ret, exc) ==
    IF exc = "" THEN (IF ret THEN "prompt" ELSE "exited")
    ELSE IF exc = "KeyboardInterrupt" THEN "exited"
    ELSE "prompt"

\* CLI.run: what the loop prints after exec_command returned ret or raised exc
run_print(ret, exc) ==
    IF exc = "" THEN (IF ret THEN <<>> ELSE <<MsgBye>>)
    ELSE IF exc = "KeyboardInterrupt" THEN <<MsgBye>>
    ELSE <<MsgError(exc)>>

\* how the line ended, for the record of the last line
Ended(ret, exc) ==
    IF exc = "" THEN (IF ret THEN "returned" ELSE "exit")
    ELSE IF exc = "KeyboardInterrupt" THEN "interrupt"
    ELSE "raised"

(***************************************************************************)
(* Inputs                                                                  *)
(***************************************************************************)
\* the command words typed
Words == {"list", "ls", "add", "create", "show", "view", "help", "?",
          "import", "fetch", "exit", "quit", "LIST", "bogus"}

\* the arguments typed after show / view
ShowArgs == {"1", "2", "x"}

\* the input lines read by the loop
Lines ==
    {<<w>> : w \in Words}
    \cup {<<>>, <<WS>>, <<WS, "list", WS>>, <<"show", WS, "1", WS, "x">>}
    \cup {<<"show", WS, a>> : a \in ShowArgs}
    \cup {<<"view", WS, "1">>}

\* the answers to the prompts of Add
AddAnswers ==
    [name : {"Amber"}, char_type : {"mage"}, health : {"5", "12", "x"},
     attack : {"7", "x"}, image_url : {""}]

\* the answers, without an interrupt (intr = 0) or with one arriving at the
\* prompt intr: at any prompt when the answers are valid, at the attack
\* prompt and at the image prompt when an earlier answer is not
AddInputs ==
    {[name |-> p[1].name, char_type |-> p[1].char_type, health |-> p[1].health,
      attack |-> p[1].attack, image_url |-> p[1].image_url, intr |-> p[2]] :
        p \in {q \in AddAnswers \X (0..5) :
                 q[2] = 0 \/ q[1].health = "5" \/ q[2] \in {4, 5}}}

\* the inputs are valid: no prompt is interrupted and both numbers parse
\* AddSaves: the ways the save() of an Add with these inputs can end (the
\* command reaches save() only with valid inputs)
AddValid(inp) == inp.intr = 0 /\ IntOk(inp.health) /\ IntOk(inp.attack)

AddSaves(inp) == IF AddValid(inp) THEN SaveOutcomes ELSE {"ok"}

\* the answers the input() calls of AddCommand.exec_command returned, in
\* order, before the command ended: an interrupt at a prompt or an int()
\* that raises ends them
Entered(inp) ==
    LET all == <<inp.name, inp.char_type, inp.health, inp.attack, inp.image_url>>
    IN  IF inp.intr \in {1, 2, 3} THEN SubSeq(all, 1, inp.intr - 1)
        ELSE IF ~IntOk(inp.health) \/ inp.intr = 4 THEN SubSeq(all, 1, 3)
        ELSE IF ~IntOk(inp.attack) \/ inp.intr = 5 THEN SubSeq(all, 1, 4)
        ELSE all

\* the answers to the count prompt of Import
CountAnswers == {"0", "1", "9", "-1", "x", CtrlC}

(***************************************************************************)
(* State                                                                   *)
(***************************************************************************)
VARIABLES
    pc,               \* "start", "prompt", "import", "exited" or "crashed"
    characters,       \* DataStorage.characters
    file,             \* characters.json
    commands,         \* CLI.commands
    rendered,         \* what the current line has rendered and printed so far
    character_names,  \* ImportCommand: the names listed
    count,            \* ImportCommand: the count chosen
    imported,         \* ImportCommand: the imported counter
    current_max_id,   \* ImportCommand: the maximum id when the batch started
    i,                \* ImportCommand: the iterations of the loop completed
    command,          \* the command word of the current line
    args,             \* the arguments of the current line
    executed,         \* the positions of the strategies executed for the line
    outcome,          \* "none", "running", "returned", "raised", "exit", "interrupt"
    before,           \* characters when the line was read
    fileBefore,       \* file when the line was read
    fetches,          \* the outcomes of the detail fetches of the line, in order
    saves,            \* the number of save() calls of the line
    prompts,          \* the number of count prompts of the line
    origin,           \* for each record of characters, the command that added it
    adds,             \* the Add commands that reached add_character since the start
    answer,           \* what the count prompt of the line got, "" without a prompt
    typed             \* the answers the prompts of Add got before the command ended

storeVars == <<characters, file>>

importVars == <<character_names, count, imported, current_max_id, i>>

lineVars == <<command, args, executed, before, fileBefore, fetches, saves, prompts>>

vars == <<pc, characters, file, commands, rendered, character_names, count,
          imported, current_max_id, i, command, args, executed, outcome,
          before, fileBefore, fetches, saves, prompts, origin, adds, answer, typed>>

\* no import is running
NoImport ==
    /\ character_names' = <<>>
    /\ count' = 0
    /\ imported' = 0
    /\ current_max_id' = 0
    /\ i' = 0

\* nothing is recorded about a line
NoLine ==
    /\ command' = None
    /\ args' = <<>>
    /\ executed' = <<>>
    /\ outcome' = "none"
    /\ before' = <<>>
    /\ fileBefore' = NoFile
    /\ fetches' = <<>>
    /\ saves' = 0
    /\ prompts' = 0
    /\ answer' = ""
    /\ typed' = <<>>

Init ==
    /\ pc = "start"
    /\ characters = <<>>
    /\ file = NoFile
    /\ commands = CLI_commands
    /\ rendered = <<>>
    /\ character_names = <<>>
    /\ count = 0
    /\ imported = 0
    /\ current_max_id = 0
    /\ i = 0
    /\ command = None
    /\ args = <<>>
    /\ executed = <<>>
    /\ outcome = "none"
    /\ before = <<>>
    /\ fileBefore = NoFile
    /\ fetches = <<>>
    /\ saves = 0
    /\ prompts = 0
    /\ origin = <<>>
    /\ adds = 0
    /\ answer = ""
    /\ typed = <<>>

(***************************************************************************)
(* Actions                                                                 *)
(***************************************************************************)
\* CLI.__init__ and DataStorage.__init__: load the file; a failure of load
\* is not caught and ends the process
Startup ==
    /\ pc = "start"
    /\ LET loaded == load(file)
       IN  /\ pc' = IF loaded.ok THEN "prompt" ELSE "crashed"
           /\ characters' = loaded.chars
           /\ origin' = [k \in 1..Len(loaded.chars) |-> "file"]
    /\ adds' = 0
    /\ rendered' = <<>>
    /\ NoImport
    /\ NoLine
    /\ UNCHANGED <<file, commands>>

\* the process is started again after the loop has ended
Restart ==
    /\ pc = "exited"
    /\ pc' = "start"
    /\ characters' = <<>>
    /\ origin' = <<>>
    /\ adds' = 0
    /\ rendered' = <<>>
    /\ NoImport
    /\ NoLine
    /\ UNCHANGED <<file, commands>>

\* the position of the strategy that exec_command executes for the line: 0
\* when it executes none
Chosen(input_string) ==
    LET route == Route(commands, parse_args(input_string).command)
    IN  IF route.exit THEN 0 ELSE route.idx

\* the kind of the strategy that exec_command executes for the line
ChosenKind(input_string) ==
    IF Chosen(input_string) = 0 THEN "none" ELSE commands[Chosen(input_string)].kind

\* the line is read and parsed, and exec_command calls a strategy of this kind
Reads(input_string, kind) ==
    /\ pc = "prompt"
    /\ ChosenKind(input_string) = kind
    /\ command' = parse_args(input_string).command
    /\ args' = parse_args(input_string).args
    /\ before' = characters
    /\ fileBefore' = file

\* a strategy that runs in one step has ended with res
Ends(k, res) ==
    /\ characters' = res.chars
    /\ origin' = IF Len(res.chars) > Len(characters)
                 THEN Append(origin, commands[k].kind) ELSE origin
    /\ file' = res.file
    /\ rendered' = res.out \o run_print(TRUE, res.exc)
    /\ pc' = run_next(TRUE, res.exc)
    /\ outcome' = Ended(TRUE, res.exc)
    /\ executed' = <<k>>
    /\ saves' = res.saves
    /\ fetches' = <<>>
    /\ prompts' = 0
    /\ answer' = ""
    /\ NoImport
    /\ UNCHANGED commands

\* KeyboardInterrupt while the loop waits for a line
PromptInterrupt ==
    /\ pc = "prompt"
    /\ pc' = run_next(TRUE, "KeyboardInterrupt")
    /\ rendered' = run_print(TRUE, "KeyboardInterrupt")
    /\ outcome' = Ended(TRUE, "KeyboardInterrupt")
    /\ command' = None
    /\ args' = <<>>
    /\ executed' = <<>>
    /\ before' = characters
    /\ fileBefore' = file
    /\ fetches' = <<>>
    /\ saves' = 0
    /\ prompts' = 0
    /\ answer' = ""
    /\ typed' = <<>>
    /\ NoImport
    /\ UNCHANGED <<characters, file, commands, origin, adds>>

\* exit / quit: exec_command returns False and the loop ends
ExitLine ==
    /\ pc = "prompt"
    /\ \E input_string \in Lines :
        /\ Route(commands, parse_args(input_string).command).exit
        /\ command' = parse_args(input_string).command
        /\ args' = parse_args(input_string).args
    /\ pc' = run_next(FALSE, "")
    /\ rendered' = run_print(FALSE, "")
    /\ outcome' = Ended(FALSE, "")
    /\ executed' = <<>>
    /\ before' = characters
    /\ fileBefore' = file
    /\ fetches' = <<>>
    /\ saves' = 0
    /\ prompts' = 0
    /\ answer' = ""
    /\ typed' = <<>>
    /\ NoImport
    /\ UNCHANGED <<characters, file, commands, origin, adds>>

\* no strategy answers to the command word
UnknownLine ==
    /\ \E input_string \in Lines :
        /\ Reads(input_string, "none")
        /\ ~Route(commands, parse_args(input_string).command).exit
    /\ rendered' = <<MsgUnknown(command')>>
    /\ pc' = run_next(TRUE, "")
    /\ outcome' = Ended(TRUE, "")
    /\ executed' = <<>>
    /\ fetches' = <<>>
    /\ saves' = 0
    /\ prompts' = 0
    /\ answer' = ""
    /\ typed' = <<>>
    /\ NoImport
    /\ UNCHANGED <<characters, file, commands, origin, adds>>

ListLine ==
    \E input_string \in Lines :
        /\ Reads(input_string, "List")
        /\ Ends(Chosen(input_string), ListCommand_exec(characters, file))
        /\ typed' = <<>>
        /\ UNCHANGED adds

AddLine ==
    \E input_string \in Lines :
        /\ Reads(input_string, "Add")
        /\ Len(characters) < MaxChars
        /\ \E inp \in AddInputs :
            \E o \in AddSaves(inp) :
                /\ Ends(Chosen(input_string), AddCommand_exec(characters, file, inp, o))
                /\ adds' = IF AddValid(inp) THEN adds + 1 ELSE adds
                /\ typed' = Entered(inp)

ShowLine ==
    \E input_string \in Lines :
        /\ Reads(input_string, "Show")
        /\ Ends(Chosen(input_string), ShowCommand_exec(args', characters, file))
        /\ typed' = <<>>
        /\ UNCHANGED adds

HelpLine ==
    \E input_string \in Lines :
        /\ Reads(input_string, "Help")
        /\ Ends(Chosen(input_string), HelpCommand_exec(characters, file))
        /\ typed' = <<>>
        /\ UNCHANGED adds

\* a variant of ImportListing that saves the store before it returns
ImportListingSaves(chars, f, raises) ==
    IF raises
    THEN Result(chars, f, <<MsgImportHeader, MsgImportLoading>>, "APIError", 0)
    ELSE Result(chars, Written(chars),
                <<MsgImportHeader, MsgImportLoading, MsgImportFailed>>, "", 1)

\* ImportCommand.exec_command, lines 161-173, when it ends before the count
\* prompt: the listing call raises, or it returns no name
ImportListing(chars, f, raises) ==
    IF raises
    THEN Result(chars, f, <<MsgImportHeader, MsgImportLoading>>, "APIError", 0)
    ELSE Result(chars, f, <<MsgImportHeader, MsgImportLoading, MsgImportFailed>>, "", 0)

ImportAbort ==
    \E input_string \in Lines :
        /\ Reads(input_string, "Import")
        /\ \E raises \in BOOLEAN :
            Ends(Chosen(input_string), ImportListing(characters, file, raises))
        /\ typed' = <<>>
        /\ UNCHANGED adds

\* ImportCommand.exec_command, lines 161-186: names are listed, the count is
\* asked for and chosen, and the batch starts
ImportBegin ==
    \E input_string \in Lines :
        /\ Reads(input_string, "Import")
        /\ \E names \in NameLists(Len(characters)) \ {<<>>}, reply \in CountAnswers :
            /\ character_names' = names
            /\ count' = ChooseCount(reply, Len(names))
            /\ answer' = reply
            /\ rendered' = <<MsgImportHeader, MsgImportLoading, MsgFound(Len(names)),
                             MsgLoadingCount(count')>>
        /\ imported' = 0
        /\ current_max_id' = MaxId(characters)
        /\ i' = 0
        /\ pc' = "import"
        /\ outcome' = "running"
        /\ executed' = <<Chosen(input_string)>>
        /\ fetches' = <<>>
        /\ saves' = 0
        /\ prompts' = 1
        /\ typed' = <<>>
        /\ UNCHANGED <<characters, file, commands, origin, adds>>

\* a variant of import_iteration in which a fetch without detail raises
import_iteration_aborts(chars, f, base, k, imp, name, details, o) ==
    CASE details \in {"raises", "none"} ->
            [chars |-> chars, file |-> f, imported |-> imp, exc |-> "APIError", saves |-> 0]
      [] details = "detail" ->
            LET char  == parse_to_character(name, ImportId(base, k))
                added == add_character(chars, f, char, o)
            IN  [chars |-> added.chars, file |-> added.file,
                 imported |-> IF added.exc = "" THEN imp + 1 ELSE imp,
                 exc |-> added.exc, saves |-> 1]

\* the body of the loop of lines 189-196 for the name at 0-based position k:
\* the store and the imported counter afterwards, the exception raised ("" for
\* none) and the number of save() calls made
import_iteration(chars, f, base, k, imp, name, details, o) ==
    CASE details = "raises" ->
            [chars |-> chars, file |-> f, imported |-> imp, exc |-> "APIError", saves |-> 0]
      [] details = "none" ->
            [chars |-> chars, file |-> f, imported |-> imp, exc |-> "", saves |-> 0]
      [] details = "detail" ->
            LET char  == parse_to_character(name, ImportId(base, k))
                added == add_character(chars, f, char, o)
            IN  [chars |-> added.chars, file |-> added.file,
                 imported |-> IF added.exc = "" THEN imp + 1 ELSE imp,
                 exc |-> added.exc, saves |-> 1]

\* one iteration of the loop of lines 189-196; an exception leaves the command
ImportItem ==
    /\ pc = "import"
    /\ i < Len(Slice(character_names, count))
    /\ \E details \in FetchOutcomes :
        \E o \in (IF details = "detail" THEN SaveOutcomes ELSE {"ok"}) :
            LET name == Slice(character_names, count)[i + 1]
                step == import_iteration(characters, file, current_max_id, i,
                                         imported, name, details, o)
            IN  /\ fetches' = Append(fetches, details)
                /\ characters' = step.chars
                /\ origin' = IF Len(step.chars) > Len(characters)
                             THEN Append(origin, "Import") ELSE origin
                /\ file' = step.file
                /\ imported' = step.imported
                /\ saves' = saves + step.saves
                /\ rendered' = Append(rendered, MsgProgress(i + 1, count, name))
                               \o (IF step.exc = "" THEN <<>>
                                   ELSE run_print(TRUE, step.exc))
                /\ i' = IF step.exc = "" THEN i + 1 ELSE i
                /\ pc' = IF step.exc = "" THEN "import" ELSE run_next(TRUE, step.exc)
                /\ outcome' = IF step.exc = "" THEN "running" ELSE Ended(TRUE, step.exc)
    /\ UNCHANGED <<commands, adds, character_names, count, current_max_id, command,
                   args, executed, before, fileBefore, prompts, answer, typed>>

\* line 198: the loop is over and the final count is rendered
ImportEnd ==
    /\ pc = "import"
    /\ i = Len(Slice(character_names, count))
    /\ rendered' = Append(rendered, MsgImported(imported)) \o run_print(TRUE, "")
    /\ pc' = run_next(TRUE, "")
    /\ outcome' = Ended(TRUE, "")
    /\ UNCHANGED <<characters, file, commands, origin, adds, character_names, count, imported,
                   current_max_id, i, command, args, executed, before, fileBefore,
                   fetches, saves, prompts, answer, typed>>

\* KeyboardInterrupt while the batch runs: it is not caught in the command
ImportInterrupt ==
    /\ pc = "import"
    /\ pc' = run_next(TRUE, "KeyboardInterrupt")
    /\ rendered' = rendered \o run_print(TRUE, "KeyboardInterrupt")
    /\ outcome' = Ended(TRUE, "KeyboardInterrupt")
    /\ UNCHANGED <<characters, file, commands, origin, adds, character_names, count, imported,
                   current_max_id, i, command, args, executed, before, fileBefore,
                   fetches, saves, prompts, answer, typed>>

Next ==
    \/ Startup
    \/ Restart
    \/ PromptInterrupt
    \/ ExitLine
    \/ UnknownLine
    \/ ListLine
    \/ AddLine
    \/ ShowLine
    \/ HelpLine
    \/ ImportAbort
    \/ ImportBegin
    \/ ImportItem
    \/ ImportEnd
    \/ ImportInterrupt

Spec == Init /\ [][Next]_vars

(***************************************************************************)
(* Dispatch over other registries: the strategies of the program with one  *)
(* more strategy whose selectors overlap theirs and hold "quit", placed     *)
(* first or last, and a registry of two strategies that share "list"       *)
(***************************************************************************)
Shadow == [kind |-> "Help", selectors |-> <<"ls", "quit", "show">>]

Registries ==
    { <<Shadow>> \o CLI_commands,
      CLI_commands \o <<Shadow>>,
      << [kind |-> "List", selectors |-> <<"list", "exit">>],
         [kind |-> "Help", selectors |-> <<"list", "help">>] >> }

InitDispatch ==
    /\ pc = "start"
    /\ characters = <<>>
    /\ file = NoFile
    /\ commands \in Registries
    /\ rendered = <<>>
    /\ character_names = <<>>
    /\ count = 0
    /\ imported = 0
    /\ current_max_id = 0
    /\ i = 0
    /\ command = None
    /\ args = <<>>
    /\ executed = <<>>
    /\ outcome = "none"
    /\ before = <<>>
    /\ fileBefore = NoFile
    /\ fetches = <<>>
    /\ saves = 0
    /\ prompts = 0
    /\ origin = <<>>
    /\ adds = 0
    /\ answer = ""
    /\ typed = <<>>

SpecDispatch == InitDispatch /\ [][Next]_vars

(***************************************************************************)
(* Properties                                                              *)
(***************************************************************************)
\* an Import batch is running or was the last command
InBatch == character_names /= <<>>

\* the records appended since the current line was read
Added == SubSeq(characters, Len(before) + 1, Len(characters))

\* the names the batch iterates over
Selected == Slice(character_names, count)

\* the 1-based listing positions whose detail fetch succeeded, in order
Successes ==
    SelectSeq([k \in 1..Len(fetches) |-> k], LAMBDA k : fetches[k] = "detail")

\* the kind of the strategy executed for the current line
ExecutedKind == IF executed = <<>> THEN "none" ELSE commands[executed[1]].kind

\* the positions of the registry whose selectors hold the command word
Matches == {k \in 1..Len(commands) : InList(command, commands[k].selectors)}

\* the positions of the store holding the id shown
Holders == {k \in 1..Len(characters) : characters[k].id = IntOf(args[1])}

Least(S) == CHOOSE k \in S : \A m \in S : k <= m

\* C1: a file written by save() is read by a fresh load() as a sequence equal
\* to the saved one (same fields, same order)
C1_SaveLoadRoundTrip ==
    file = Written(characters) => load(file) = [ok |-> TRUE, chars |-> characters]

\* C2 as stated: the records of one Import have the ids M+1, M+2, ... without
\* a gap, M being the maximum id when the batch started
C2_ImportIdsSequential ==
    InBatch => \A j \in 1..Len(Added) : Added[j].id = current_max_id + j

\* C2 amended: the record of the name at listing position p has the id M+p,
\* whether or not earlier fetches failed (a failed fetch uses up its id)
C2_ImportIdsByPosition ==
    InBatch =>
        /\ current_max_id = MaxId(before)
        /\ Len(Added) = Len(Successes)
        /\ \A j \in 1..Len(Added) : Added[j].id = current_max_id + Successes[j]

\* a batch in which a fetch failed before one that succeeded
C2_Witness ==
    /\ InBatch
    /\ outcome = "returned"
    /\ \E j \in 1..Len(Added) : Successes[j] > j

\* C3: from an empty store, after k Add commands with valid inputs the store
\* has k records with the ids 1..k in order, each found by get_by_id
C3_AddIds ==
    (\A k \in 1..Len(origin) : origin[k] = "Add") =>
        /\ Len(characters) = adds
        /\ \A k \in 1..Len(characters) :
            /\ characters[k].id = k
            /\ get_by_id(characters, characters[k].id) = k

\* two records added by Add with different field values
C3_Witness ==
    /\ adds = 2
    /\ Len(characters) = 2
    /\ origin = <<"Add", "Add">>
    /\ characters[1].health /= characters[2].health

\* C4: an Import whose listing is empty renders the failure and returns with
\* the store unchanged, no save, no count prompt and no detail fetch
C4_EmptyListingAborts ==
    (ExecutedKind = "Import" /\ character_names = <<>> /\ outcome = "returned") =>
        /\ pc = "prompt"
        /\ rendered = <<MsgImportHeader, MsgImportLoading, MsgImportFailed>>
        /\ characters = before
        /\ file = fileBefore
        /\ saves = 0
        /\ prompts = 0
        /\ fetches = <<>>

\* an Import with an empty listing on a store that holds a record
C4_Witness ==
    /\ ExecutedKind = "Import"
    /\ character_names = <<>>
    /\ outcome = "returned"
    /\ characters /= <<>>

\* C5: whatever the answer to the count prompt, one Import attempts no more
\* fetches and adds no more records than the listing has names
C5_CountClamped ==
    InBatch =>
        /\ Len(Selected) <= Len(character_names)
        /\ Len(fetches) <= Len(character_names)
        /\ Len(Added) <= Len(character_names)

\* the default count 5 with fewer names listed: every name was attempted
C5_Witness ==
    /\ InBatch
    /\ outcome = "returned"
    /\ count = DefaultCount
    /\ Len(character_names) < count
    /\ Len(fetches) = Len(character_names)

\* C6: for a line that is not exit / quit, the strategy executed is the
\* earliest registered one whose selectors hold the command word, and no other
C6_FirstMatchWins ==
    (outcome /= "none" /\ ~InList(command, <<"exit", "quit">>)) =>
        IF Matches = {} THEN executed = <<>> ELSE executed = <<Least(Matches)>>

\* a command word that two registered strategies answer to
C6_Witness ==
    /\ outcome = "returned"
    /\ Cardinality(Matches) = 2
    /\ executed = <<Least(Matches)>>
    /\ Least(Matches) > 1

\* C7: Show never changes the store and never ends the loop; it renders the
\* usage without an argument, raises on a non-integer, renders not found for
\* an absent id and the first record in store order for a present one
C7_ShowOutcomes ==
    ExecutedKind = "Show" =>
        /\ pc = "prompt"
        /\ characters = before
        /\ file = fileBefore
        /\ args = <<>> => (outcome = "returned" /\ rendered = <<MsgShowUsage>>)
        /\ (args /= <<>> /\ ~IntOk(args[1])) =>
            (outcome = "raised" /\ rendered = <<MsgError("ValueError")>>)
        /\ (args /= <<>> /\ IntOk(args[1])) =>
            /\ outcome = "returned"
            /\ rendered = IF Holders = {} THEN <<MsgNotFound>>
                          ELSE ShowLines(characters[Least(Holders)])

\* Show of an id that two different records have
C7_Witness ==
    /\ ExecutedKind = "Show"
    /\ args /= <<>>
    /\ IntOk(args[1])
    /\ Cardinality(Holders) = 2
    /\ characters[1] /= characters[2]

\* C8: exit / quit ends the loop with no strategy executed and the store
\* unchanged, also when a registered strategy has the word as a selector
C8_ExitBeforeRegistry ==
    (outcome /= "none" /\ InList(command, <<"exit", "quit">>)) =>
        /\ outcome = "exit"
        /\ pc = "exited"
        /\ executed = <<>>
        /\ characters = before
        /\ file = fileBefore

\* quit typed to a registry in which a strategy has the selector quit
C8_Witness ==
    /\ outcome = "exit"
    /\ command = "quit"
    /\ Matches /= {}
    /\ characters /= <<>>

\* C9: a command that raises does not end the loop: the error is printed and
\* the loop reads the next line; the loop ends only on exit / quit or an interrupt
C9_FailuresDoNotEndLoop ==
    /\ outcome = "raised" =>
        /\ pc = "prompt"
        /\ rendered /= <<>>
        /\ rendered[Len(rendered)][1] = "Error: "
    /\ pc = "exited" => outcome \in {"exit", "interrupt"}

\* a save failure inside add_character, caught by the loop
C9_Witness ==
    /\ outcome = "raised"
    /\ saves = 1
    /\ characters /= before
    /\ pc = "prompt"

C11_FileFollowsMemory ==
    /\ (ExecutedKind = "Add" /\ saves = 1 /\ outcome = "returned") =>
        file = Written(characters)
    /\ (InBatch /\ fetches /= <<>> /\ fetches[Len(fetches)] = "detail"
            /\ outcome /= "raised") =>
        file = Written(characters)

\* a batch that has stored its first record and has a name left to fetch
C11_Witness ==
    /\ pc = "import"
    /\ fetches = <<"detail">>
    /\ i < Len(Selected)
    /\ Len(characters) = Len(before) + 1
    /\ file = Written(characters)

\* C12 as stated: an interrupt ends the loop only while the loop waits for a
\* line, and it never leaves a partly applied Import in the store
C12_InterruptOnlyAtPrompt ==
    outcome = "interrupt" => (executed = <<>> /\ characters = before)

\* C12 amended: an interrupt ends the loop with the farewell wherever run()
\* sees it: at the top-level prompt, at a prompt of Add (the store is then
\* unchanged) and in the middle of an Import batch (the records imported so
\* far stay in the store and in the file). Only an interrupt at the count
\* prompt of Import is swallowed: the count becomes the default and the batch
\* runs
C12_InterruptEndsLoopAnywhere ==
    /\ outcome = "interrupt" =>
        /\ pc = "exited"
        /\ rendered /= <<>>
        /\ rendered[Len(rendered)] = MsgBye
        /\ ExecutedKind \in {"none", "Add", "Import"}
        /\ ExecutedKind = "none" => characters = before
        /\ ExecutedKind = "Add" =>
            (characters = before /\ file = fileBefore /\ Len(typed) < 5)
        /\ ExecutedKind = "Import" =>
            /\ Len(Added) = Len(Successes)
            /\ imported = Len(Added)
            /\ imported > 0 => file = Written(characters)
    /\ answer = CtrlC =>
        /\ InBatch
        /\ prompts = 1
        /\ count = DefaultCount
        /\ Selected = character_names
        /\ (fetches = <<>> /\ outcome = "running") => pc = "import"

\* an interrupt in the middle of a batch that had stored one record and had a
\* name left to fetch
C12_Witness ==
    /\ outcome = "interrupt"
    /\ ExecutedKind = "Import"
    /\ Len(Added) = 1
    /\ i < Len(Selected)
    /\ pc = "exited"

\* C13: when the health or the attack answer of Add is not an integer, the
\* store and the file are unchanged, nothing is saved and the loop renders the
\* failure and goes on; an Add that stores a record gives it the id count+1 of
\* the store it found, so the id a failed Add did not use goes to the next one
C13_AddAllOrNothing ==
    ExecutedKind = "Add" =>
        /\ ((Len(typed) >= 3 /\ ~IntOk(typed[3]))
                \/ (Len(typed) >= 4 /\ ~IntOk(typed[4]))) =>
            /\ characters = before
            /\ file = fileBefore
            /\ saves = 0
            /\ outcome = "raised"
            /\ pc = "prompt"
            /\ rendered = <<MsgAddHeader, MsgError("ValueError")>>
        /\ characters /= before =>
            /\ Len(characters) = Len(before) + 1
            /\ SubSeq(characters, 1, Len(before)) = before
            /\ characters[Len(characters)].id = Len(before) + 1

\* an Add on a store with a record whose attack answer does not parse
C13_Witness ==
    /\ ExecutedKind = "Add"
    /\ Len(typed) = 4
    /\ IntOk(typed[3])
    /\ ~IntOk(typed[4])
    /\ outcome = "raised"
    /\ before /= <<>>

\* C14: a line whose command word is not exit / quit and is in no selector
\* list (an empty or blank line and a word in another letter case included)
\* executes no command, renders the unknown-command message, leaves the store
\* and the file unchanged and the loop goes on
C14_UnknownCommand ==
    (outcome \notin {"none", "interrupt"} /\ ~InList(command, <<"exit", "quit">>)
        /\ Matches = {}) =>
        /\ executed = <<>>
        /\ rendered = <<MsgUnknown(command)>>
        /\ characters = before
        /\ file = fileBefore
        /\ outcome = "returned"
        /\ pc = "prompt"

\* a line that yields no command word, read with a record in the store
C14_Witness ==
    /\ command = None
    /\ outcome = "returned"
    /\ rendered = <<MsgUnknown(None)>>
    /\ characters /= <<>>
    /\ pc = "prompt"

\* C15: with base the maximum id of the store when the batch starts, the
\* record of the name at 0-based listing position p has the id base + p + 1:
\* it is above every id the store held when the batch started, and the ids of
\* one batch differ from each other
C15_ImportIdsFresh ==
    InBatch =>
        /\ current_max_id = MaxId(before)
        /\ \A k \in 1..Len(before) : before[k].id <= current_max_id
        /\ \A j \in 1..Len(Added) :
            /\ Added[j].id = current_max_id + (Successes[j] - 1) + 1
            /\ \A k \in 1..Len(before) : Added[j].id > before[k].id
            /\ \A m \in 1..Len(Added) : m /= j => Added[m].id /= Added[j].id

\* a batch that stores a record in a store whose maximum id is above its
\* number of records
C15_Witness ==
    /\ InBatch
    /\ before /= <<>>
    /\ current_max_id > Len(before)
    /\ Added /= <<>>

\* C16: the records an Import adds never exceed the count N it announces and
\* shows in its progress lines, whatever integer is typed at the count prompt;
\* for 0 and for a negative integer it adds none
C16_AddedWithinCount ==
    InBatch => Len(Added) <= (IF count < 0 THEN 0 ELSE count)

\* the last add_character of the line raised in save()
SaveFailed ==
    /\ outcome = "raised"
    /\ saves > 0
    /\ InBatch => fetches[Len(fetches)] = "detail"

\* C17: when save() fails inside add_character the record stays appended in
\* memory and the file does not hold it, the loop renders the failure and goes
\* on, a later Add counts the record for its id count+1, and the next save()
\* that succeeds writes it together with the later records
C17_NoRollback ==
    /\ SaveFailed =>
        /\ Added /= <<>>
        /\ SubSeq(characters, 1, Len(before)) = before
        /\ file /= Written(characters)
        /\ Len(file.data) < Len(characters)
        /\ pc = "prompt"
        /\ rendered[Len(rendered)] = MsgError("OSError")
    /\ (ExecutedKind = "Add" /\ saves = 1) =>
        /\ characters = Append(before, characters[Len(characters)])
        /\ characters[Len(characters)].id = Len(before) + 1
        /\ outcome = "returned" => file = Written(characters)

\* an Add that succeeds on a store holding a record that never reached the
\* file: the record is counted for the id and written with the new one
C17_Witness ==
    /\ ExecutedKind = "Add"
    /\ outcome = "returned"
    /\ before /= <<>>
    /\ fileBefore /= Written(before)
    /\ characters[Len(characters)].id = Len(before) + 1
    /\ file = Written(characters)

\* C18: from an empty store, with records created by Add and Import only, no
\* two records of the store share an id, so get_by_id(r.id) finds r for every
\* record r of the store
C18_IdsUnique ==
    (\A k \in 1..Len(origin) : origin[k] \in {"Add", "Import"}) =>
        /\ \A j, k \in 1..Len(characters) :
            j /= k => characters[j].id /= characters[k].id
        /\ \A k \in 1..Len(characters) : get_by_id(characters, characters[k].id) = k

\* the ids of the records are 1, 2, ..., n in insertion order
Sequential(chars) == \A k \in 1..Len(chars) : chars[k].id = k

\* every detail fetch of the line returned a detail
AllDetail(fs) == \A k \in 1..Len(fs) : fs[k] = "detail"

\* C19: from the empty store, as long as no detail fetch fails, every step of
\* Add and Import keeps the ids 1, 2, ..., n in insertion order, and count+1
\* and max+1 are then the same id
C19_PoliciesAgree ==
    [][(Sequential(characters) /\ AllDetail(fetches')) =>
            /\ Sequential(characters')
            /\ char_id(characters') = MaxId(characters') + 1]_vars

\* an Add after an Import, the ids being 1 and 2
C19_Witness ==
    /\ origin = <<"Import", "Add">>
    /\ AllDetail(fetches)
    /\ characters[1].id = 1
    /\ characters[2].id = 2

\* a is a prefix of b
IsPrefix(a, b) == Len(a) <= Len(b) /\ SubSeq(b, 1, Len(a)) = a

\* C20: within a process run every step leaves the records of the store in
\* place and in order and at most appends to them, and a line that runs List,
\* Show or Help or is an unknown command leaves the store as it was
C20_AppendOnly ==
    [][/\ (pc /= "exited" \/ pc' /= "start") => IsPrefix(characters, characters')
       /\ (ExecutedKind' \in {"List", "Show", "Help"}
            \/ (executed' = <<>> /\ outcome' = "returned")) =>
            (characters' = characters /\ before' = characters)]_vars

\* Show has run on a store of two records and left it as it was
C20_Witness ==
    /\ ExecutedKind = "Show"
    /\ Len(characters) = 2
    /\ characters = before
    /\ pc = "prompt"

=============================================================================
